---- MODULE Spec2Model ----
(***************************************************************************)
(* Model of src/utils/utils.py: the spherical-geometry primitives          *)
(* angle_between, sph2vec, vec2sph, sphadj / eleadj / aziadj and vec2pol.  *)
(*                                                                         *)
(* Numbers.  Angles are exact integer multiples of pi/6 (PI == 6), so that *)
(* the comparisons, the folds pi - theta and the 2*pi wraps of the code    *)
(* are computed exactly.  Vectors are axis-aligned with integer lengths,   *)
(* for which norm, atan2, arccos, sin and cos have exact values on the     *)
(* pi/6 lattice.  A numpy array is a sequence; a numpy scalar              *)
(* (np.float64) is a one-element sequence of kind "scalar": the two differ *)
(* in that `x += c` and `x[mask] = ...` change an array in place (the      *)
(* caller sees it) while a scalar is rebound.                              *)
(***************************************************************************)
EXTENDS Integers, Sequences, FiniteSets, TLC

VARIABLES pc, op, args, mem, out, exc

vars == <<pc, op, args, mem, out, exc>>

\* np.pi, in units of pi/6
PI == 6
TwoPi == 2 * PI
HalfPi == PI \div 2

\* largest |angle| of a scalar or azimuth-only input, in units of pi/6
MaxAng == 14
\* largest |elevation| of a row of a (theta, phi) batch
MaxB == 5
\* largest |azimuth| of a row of a (theta, phi) batch
MaxBPhi == 1

\* the floating-point not-a-number np.arccos returns outside [-1, 1]
NaN == 1000000

Angles == (0 - MaxAng)..MaxAng
BatchTheta == (0 - MaxB)..MaxB
BatchPhi == (0 - MaxBPhi)..MaxBPhi
\* numbers of rows of the batches passed to sphadj
SphRows == {1, 2, 3}
\* numbers of rows of the azimuth-only batches
AziRows == {1, 2}
\* the values the azimuth bounds phi_min < phi_max are drawn from
BoundVals == {0 - TwoPi, 0 - PI, 0, PI, TwoPi}
\* the lengths of the non-zero vectors
Mags == {1, 2}
\* numbers of rows of the N x 3 batches passed to vec2sph
VecRows == {1, 2, 3}
\* the axis-aligned 3-vectors and the zero vector
Vec3 ==
    {<<0, 0, 0>>}
      \cup UNION {{<<m, 0, 0>>, <<0 - m, 0, 0>>, <<0, m, 0>>, <<0, 0 - m, 0>>,
                   <<0, 0, m>>, <<0, 0, 0 - m>>} : m \in Mags}
\* the axis-aligned 2-vectors and the zero vector
Vec2 ==
    {<<0, 0>>}
      \cup UNION {{<<m, 0>>, <<0 - m, 0>>, <<0, m>>, <<0, 0 - m>>} : m \in Mags}

---------------------------------------------------------------------------
\* Values: None, a numpy scalar, or a numpy array.
None == [kind |-> "none", v |-> <<>>]
Scalar(x) == [kind |-> "scalar", v |-> <<x>>]
Array(s) == [kind |-> "array", v |-> s]

SeqsOf(S, n) == [1..n -> S]

\* IEEE comparisons and arithmetic: every comparison with NaN is false,
\* every sum with NaN is NaN.
Ge(a, b) == a # NaN /\ a >= b
Lt(a, b) == a # NaN /\ a < b
Plus(a, c) == IF a = NaN THEN NaN ELSE a + c
Minus(c, a) == IF a = NaN THEN NaN ELSE c - a

\* np.all(x): falsy for None, else "every element is non-zero"
NpAll(x) == x.kind # "none" /\ \A i \in DOMAIN x.v : x.v[i] # 0

---------------------------------------------------------------------------
\* angle_between(ang1, ang2, sign): Python's % with a positive divisor
\* yields a value in [0, divisor), as TLA+'s % does.
AbsInt(x) == IF x < 0 THEN 0 - x ELSE x

AngleBetweenNoShift(ang1, ang2, sign) ==
    LET d == ((ang1 - ang2) % TwoPi) - PI
    IN  IF sign THEN d ELSE AbsInt(d)

angle_between(ang1, ang2, sign) ==
    LET d == ((ang1 - ang2 + PI) % TwoPi) - PI
    IN  IF sign THEN d ELSE AbsInt(d)

---------------------------------------------------------------------------
\* sphadj, elevation stage (lines 102-118).

\* which of the four branches of the if/elif chain is taken
EleBranch(theta, theta_min, theta_max) ==
    IF theta.kind = "none" THEN "skip"
    ELSE IF \A i \in DOMAIN theta.v : Ge(theta.v[i], theta_max) THEN "all_high"
    ELSE IF \A i \in DOMAIN theta.v : Lt(theta.v[i], theta_min) THEN "all_low"
    ELSE IF \E i \in DOMAIN theta.v : Ge(theta.v[i], theta_max) THEN "any_high"
    ELSE IF \E i \in DOMAIN theta.v : Lt(theta.v[i], theta_min) THEN "any_low"
    ELSE "in_range"

\* theta after the elevation stage
EleTheta(theta, theta_min, theta_max) ==
    LET b == EleBranch(theta, theta_min, theta_max)
    IN  CASE b = "all_high" ->
                [theta EXCEPT !.v = [i \in DOMAIN theta.v |-> Minus(PI, theta.v[i])]]
          [] b = "all_low" ->
                [theta EXCEPT !.v = [i \in DOMAIN theta.v |-> Minus(0 - PI, theta.v[i])]]
          [] b = "any_high" ->
                [theta EXCEPT !.v = [i \in DOMAIN theta.v |->
                    IF Ge(theta.v[i], theta_max) THEN Minus(PI, theta.v[i])
                    ELSE theta.v[i]]]
          [] b = "any_low" ->
                [theta EXCEPT !.v = [i \in DOMAIN theta.v |->
                    IF Lt(theta.v[i], theta_min) THEN Minus(0 - PI, theta.v[i])
                    ELSE theta.v[i]]]
          [] OTHER -> theta

\* phi after the elevation stage.  In the two partial branches the mask
\* theta >= theta_max (theta < theta_min) is evaluated on theta AFTER the
\* assignment of line 112 (116), as the code does.
ElePhi(theta, phi, theta_min, theta_max) ==
    LET b == EleBranch(theta, theta_min, theta_max)
        t1 == EleTheta(theta, theta_min, theta_max)
    IN  IF ~NpAll(phi) THEN phi
        ELSE CASE b \in {"all_high", "all_low"} ->
                    [phi EXCEPT !.v = [i \in DOMAIN phi.v |-> Plus(phi.v[i], PI)]]
               [] b = "any_high" ->
                    [phi EXCEPT !.v = [i \in DOMAIN phi.v |->
                        IF Ge(t1.v[i], theta_max) THEN Plus(phi.v[i], PI)
                        ELSE phi.v[i]]]
               [] b = "any_low" ->
                    [phi EXCEPT !.v = [i \in DOMAIN phi.v |->
                        IF Lt(t1.v[i], theta_min) THEN Plus(phi.v[i], PI)
                        ELSE phi.v[i]]]
               [] OTHER -> phi

---------------------------------------------------------------------------
\* sphadj, azimuth stage (lines 120-128): four while loops.
RECURSIVE WrapAllUp(_, _), WrapAllDown(_, _), WrapAnyUp(_, _), WrapAnyDown(_, _)

\* while (phi < phi_min).all(): phi += 2 * np.pi
WrapAllUp(v, phi_min) ==
    IF \A i \in DOMAIN v : Lt(v[i], phi_min)
    THEN WrapAllUp([i \in DOMAIN v |-> Plus(v[i], TwoPi)], phi_min)
    ELSE v

\* while (phi >= phi_max).all(): phi -= 2 * np.pi
WrapAllDown(v, phi_max) ==
    IF \A i \in DOMAIN v : Ge(v[i], phi_max)
    THEN WrapAllDown([i \in DOMAIN v |-> Plus(v[i], 0 - TwoPi)], phi_max)
    ELSE v

\* while (phi < phi_min).any(): phi[phi < phi_min] += 2 * np.pi
WrapAnyUp(v, phi_min) ==
    IF \E i \in DOMAIN v : Lt(v[i], phi_min)
    THEN WrapAnyUp([i \in DOMAIN v |->
            IF Lt(v[i], phi_min) THEN Plus(v[i], TwoPi) ELSE v[i]], phi_min)
    ELSE v

\* while (phi >= phi_max).any(): phi[phi >= phi_max] -= 2 * np.pi
WrapAnyDown(v, phi_max) ==
    IF \E i \in DOMAIN v : Ge(v[i], phi_max)
    THEN WrapAnyDown([i \in DOMAIN v |->
            IF Ge(v[i], phi_max) THEN Plus(v[i], 0 - TwoPi) ELSE v[i]], phi_max)
    ELSE v

\* The azimuth stage without its two masked loops (lines 125-128).
AziStageAllOnly(phi, phi_min, phi_max) ==
    IF phi.kind = "none" THEN [phi |-> phi, exc |-> "none"]
    ELSE [phi |-> [phi EXCEPT !.v = WrapAllDown(WrapAllUp(phi.v, phi_min), phi_max)],
          exc |-> "none"]

\* The azimuth stage.  A numpy scalar passes the two whole-value loops by
\* rebinding; the masked assignment phi[mask] += ... of lines 126 and 128
\* is not supported by a numpy scalar and raises TypeError.
AziStage(phi, phi_min, phi_max) ==
    IF phi.kind = "none" THEN [phi |-> phi, exc |-> "none"]
    ELSE LET v2 == WrapAllDown(WrapAllUp(phi.v, phi_min), phi_max)
         IN  IF phi.kind = "scalar"
             THEN IF Lt(v2[1], phi_min) \/ Ge(v2[1], phi_max)
                  THEN [phi |-> phi, exc |-> "TypeError"]
                  ELSE [phi |-> [phi EXCEPT !.v = v2], exc |-> "none"]
             ELSE [phi |-> [phi EXCEPT !.v =
                               WrapAnyDown(WrapAnyUp(v2, phi_min), phi_max)],
                   exc |-> "none"]

\* sphadj(theta, phi, theta_min, theta_max, phi_min, phi_max): the returned
\* pair, the exception raised if any, and the contents of the caller's
\* theta and phi objects after the call (ctheta, cphi).  theta is rebound
\* to a new array in the whole-batch branches (lines 104, 108) and changed
\* in place in the partial ones (lines 112, 116); phi is only ever changed
\* in place (lines 106-128).
sphadj(theta, phi, theta_min, theta_max, phi_min, phi_max) ==
    LET b  == EleBranch(theta, theta_min, theta_max)
        t1 == EleTheta(theta, theta_min, theta_max)
        p1 == ElePhi(theta, phi, theta_min, theta_max)
        az == AziStage(p1, phi_min, phi_max)
    IN  [theta  |-> IF az.exc = "none" THEN t1 ELSE None,
         phi    |-> IF az.exc = "none" THEN az.phi ELSE None,
         exc    |-> az.exc,
         ctheta |-> IF theta.kind = "array" /\ b \in {"any_high", "any_low"}
                    THEN t1 ELSE theta,
         cphi   |-> IF phi.kind = "array" THEN az.phi ELSE phi]

\* the default bounds of sphadj (lines 89-90)
sphadjDefault(theta, phi) == sphadj(theta, phi, 0 - HalfPi, HalfPi, 0 - PI, PI)

---------------------------------------------------------------------------
\* Exact numpy functions on the lattice.

\* np.sqrt of a perfect square (la.norm of an axis-aligned vector)
Sqrt(n) == CHOOSE r \in 0..n : r * r = n

\* la.norm(vec, axis=-1) of one row
Norm(vec) == Sqrt(vec[1] * vec[1] + vec[2] * vec[2] + vec[3] * vec[3])

\* np.arctan2(a, b) for arguments of which at most one is non-zero: the
\* value then depends on their signs alone.  arctan2(0, 0) = 0.
Arctan2(a, b) ==
    CASE a = 0 /\ b >= 0 -> 0
      [] a = 0 /\ b < 0 -> PI
      [] a > 0 /\ b = 0 -> HalfPi
      [] a < 0 /\ b = 0 -> 0 - HalfPi

\* np.arccos of the quotient n / d (d > 0): NaN outside [-1, 1], exact at
\* 0, +-1/2 and +-1.
Arccos(n, d) ==
    CASE n > d \/ 0 - n > d -> NaN
      [] n = 0 -> HalfPi
      [] n = d -> 0
      [] 0 - n = d -> PI
      [] 2 * n = d -> PI \div 3
      [] 0 - 2 * n = d -> 2 * (PI \div 3)

\* A real x is held as the integer s * x * x, s its sign, times a stated
\* scale: the map is one-to-one and turns products into products, which is
\* all sph2vec computes.  Sin4(a) is 4 * sign * sin(a)^2.
Sin4(a) ==
    IF a = NaN THEN NaN
    ELSE LET k == a % TwoPi
         IN  CASE k \in {0, 6} -> 0
               [] k \in {1, 5} -> 1
               [] k \in {2, 4} -> 3
               [] k = 3 -> 4
               [] k \in {7, 11} -> 0 - 1
               [] k \in {8, 10} -> 0 - 3
               [] k = 9 -> 0 - 4
Cos4(a) == IF a = NaN THEN NaN ELSE Sin4(a + HalfPi)
\* sign * x * x of an integer x
SignedSq(x) == x * AbsInt(x)
\* the product of reals, NaN if a factor is NaN
Times(a, b) == IF a = NaN \/ b = NaN THEN NaN ELSE a * b

---------------------------------------------------------------------------
\* sph2vec on one coordinate (lines 36-38); each component is returned as
\* 16 * sign * value^2.
\*   x = rho * (sin(phi) * cos(theta))
\*   y = rho * (cos(phi) * cos(theta))
\*   z = rho * sin(theta)
Sph2vecRow(theta, phi, rho) ==
    << Times(SignedSq(rho), Times(Sin4(phi), Cos4(theta))),
       Times(SignedSq(rho), Times(Cos4(phi), Cos4(theta))),
       Times(SignedSq(rho), Times(Sin4(theta), 4)) >>

\* sph2vec(packed): packed holds (theta, phi, rho) on its last axis; a
\* single coordinate (ndim 1, lines 25-29) or a batch (lines 31-34).
sph2vec(packed) ==
    IF packed.kind = "single"
    THEN [kind |-> "single",
          v |-> Sph2vecRow(packed.v[1], packed.v[2], packed.v[3])]
    ELSE [kind |-> "batch",
          v |-> [i \in DOMAIN packed.v |->
                    Sph2vecRow(packed.v[i][1], packed.v[i][2], packed.v[i][3])]]

\* an integer vector in the representation of sph2vec's result
AsReal(vec) == [j \in 1..3 |-> 16 * SignedSq(vec[j])]

---------------------------------------------------------------------------
\* vec2sph (lines 51-66).  vec is a single 3-vector (ndim 1) or an N x 3
\* batch.  In the batch branch vec / rho divides an (N, 3) array by an
\* (N,) array: numpy aligns rho with the LAST axis, so the division raises
\* ValueError unless N is 1 or 3, and for N = 3 divides column j by rho[j].

\* The components of v = vec / rho are quotients with a positive
\* denominator: arctan2 is taken of their numerators (it reads their signs
\* alone here), arccos of the quotient v[2] itself.

\* rho after line 55 / line 60
RhoOf(vec) == IF Norm(vec) = 0 THEN 1 ELSE Norm(vec)

vec2sph(vec) ==
    IF vec.kind = "single"
    THEN LET rho   == RhoOf(vec.v)
             phi   == Arctan2(vec.v[1], vec.v[2])
             theta == Minus(HalfPi, Arccos(vec.v[3], rho))
             adj   == sphadjDefault(Scalar(theta), Scalar(phi))
         IN  [exc |-> "none",
              sph |-> [kind |-> "single",
                       v |-> <<adj.theta.v[1], adj.phi.v[1], rho>>]]
    ELSE LET N     == Len(vec.v)
             rho   == [i \in 1..N |-> RhoOf(vec.v[i])]
             den   == [j \in 1..3 |-> IF N = 1 THEN rho[1] ELSE rho[j]]
             phi   == [i \in 1..N |-> Arctan2(vec.v[i][1], vec.v[i][2])]
             theta == [i \in 1..N |-> Minus(HalfPi, Arccos(vec.v[i][3], den[3]))]
             adj   == sphadjDefault(Array(theta), Array(phi))
         IN  IF N \notin {1, 3}
             THEN [exc |-> "ValueError", sph |-> [kind |-> "batch", v |-> <<>>]]
             ELSE [exc |-> "none",
                   sph |-> [kind |-> "batch",
                            v |-> [i \in 1..N |->
                                     <<adj.theta.v[i], adj.phi.v[i], rho[i]>>]]]

---------------------------------------------------------------------------
\* vec2pol (lines 137-146): the packed form takes vec = [x, y]; the
\* separate form takes vec = x and y.
vec2pol_packed(vec) ==
    [rho |-> Sqrt(vec[1] * vec[1] + vec[2] * vec[2]),
     phi |-> Arctan2(vec[2], vec[1])]

vec2pol(vec, y) ==
    [rho |-> Sqrt(vec * vec + y * y),
     phi |-> Arctan2(vec, y)]

---------------------------------------------------------------------------
\* The caller: in state "idle" it builds the arguments and calls a
\* function; in state "returned" it holds the returned value (out), the
\* exception (exc), the arguments as they were passed (args) and its own
\* argument objects as the call left them (mem).

Init ==
    /\ pc = "idle"
    /\ op = "none"
    /\ args = [theta |-> None, phi |-> None]
    /\ mem = [theta |-> None, phi |-> None]
    /\ out = [theta |-> None, phi |-> None]
    /\ exc = "none"

Returned(name, a, r) ==
    /\ pc' = "returned"
    /\ op' = name
    /\ args' = a
    /\ mem' = [theta |-> r.ctheta, phi |-> r.cphi]
    /\ out' = [theta |-> r.theta, phi |-> r.phi]
    /\ exc' = r.exc

\* the arguments of a call of the sphadj family, as passed
SphArgs(t, p, lo, hi) == [theta |-> t, phi |-> p, phi_min |-> lo, phi_max |-> hi]

\* theta, phi = sphadj(theta, phi) on two numpy scalars
CallSphadjScalar ==
    /\ pc = "idle"
    /\ \E t \in Angles, p \in Angles :
          Returned("sphadj", SphArgs(Scalar(t), Scalar(p), 0 - PI, PI),
                   sphadjDefault(Scalar(t), Scalar(p)))

\* theta, phi = sphadj(theta, phi) on two arrays of n rows
CallSphadjBatch ==
    /\ pc = "idle"
    /\ \E n \in SphRows :
         \E t \in SeqsOf(BatchTheta, n), p \in SeqsOf(BatchPhi, n) :
            Returned("sphadj", SphArgs(Array(t), Array(p), 0 - PI, PI),
                     sphadjDefault(Array(t), Array(p)))

\* _, phi = sphadj(phi=phi, phi_min=lo, phi_max=hi) on a numpy scalar
CallSphadjAzimuthScalar ==
    /\ pc = "idle"
    /\ \E p \in Angles, lo \in BoundVals, hi \in BoundVals :
          /\ lo < hi
          /\ Returned("sphadj_phi", SphArgs(None, Scalar(p), lo, hi),
                      sphadj(None, Scalar(p), 0 - HalfPi, HalfPi, lo, hi))

\* _, phi = sphadj(phi=phi, phi_min=lo, phi_max=hi) on an array
CallSphadjAzimuthBatch ==
    /\ pc = "idle"
    /\ \E n \in AziRows, lo \in BoundVals, hi \in BoundVals :
          /\ lo < hi
          /\ \E p \in SeqsOf(Angles, n) :
                Returned("sphadj_phi", SphArgs(None, Array(p), lo, hi),
                         sphadj(None, Array(p), 0 - HalfPi, HalfPi, lo, hi))

\* eleadj(theta): theta, _ = sphadj(theta=theta); return theta
eleadj(theta) == [sphadjDefault(theta, None) EXCEPT !.phi = None]

\* aziadj(phi): _, phi = sphadj(phi=phi); return phi
aziadj(phi) == [sphadjDefault(None, phi) EXCEPT !.theta = None]

CallEleadj ==
    /\ pc = "idle"
    /\ \/ \E t \in Angles :
            Returned("eleadj", SphArgs(Scalar(t), None, 0 - PI, PI), eleadj(Scalar(t)))
       \/ \E n \in AziRows : \E t \in SeqsOf(Angles, n) :
            Returned("eleadj", SphArgs(Array(t), None, 0 - PI, PI), eleadj(Array(t)))

CallAziadj ==
    /\ pc = "idle"
    /\ \/ \E p \in Angles :
            Returned("aziadj", SphArgs(None, Scalar(p), 0 - PI, PI), aziadj(Scalar(p)))
       \/ \E n \in AziRows : \E p \in SeqsOf(Angles, n) :
            Returned("aziadj", SphArgs(None, Array(p), 0 - PI, PI), aziadj(Array(p)))

\* d = angle_between(ang1, ang2, sign)
CallAngleBetween ==
    /\ pc = "idle"
    /\ \E a \in Angles, b \in Angles, s \in BOOLEAN :
          /\ pc' = "returned"
          /\ op' = "angle_between"
          /\ args' = [ang1 |-> a, ang2 |-> b, sign |-> s]
          /\ mem' = [ang1 |-> a, ang2 |-> b]
          /\ out' = [d |-> angle_between(a, b, s)]
          /\ exc' = "none"

\* s = vec2sph(vec) on a single 3-vector
CallVec2sphSingle ==
    /\ pc = "idle"
    /\ \E w \in Vec3 :
          LET vec == [kind |-> "single", v |-> w]
              r   == vec2sph(vec)
          IN  /\ pc' = "returned"
              /\ op' = "vec2sph"
              /\ args' = [vec |-> vec]
              /\ mem' = [vec |-> vec]
              /\ out' = [sph |-> r.sph]
              /\ exc' = r.exc

\* s = vec2sph(vec) on an N x 3 batch
CallVec2sphBatch ==
    /\ pc = "idle"
    /\ \E n \in VecRows : \E w \in SeqsOf(Vec3, n) :
          LET vec == [kind |-> "batch", v |-> w]
              r   == vec2sph(vec)
          IN  /\ pc' = "returned"
              /\ op' = "vec2sph"
              /\ args' = [vec |-> vec]
              /\ mem' = [vec |-> vec]
              /\ out' = [sph |-> r.sph]
              /\ exc' = r.exc

\* sph2vec(s) on the value vec2sph returned (lines 179-181 of __main__);
\* the caller keeps the vector it started from (args.vec)
CallSph2vecOfResult ==
    /\ pc = "returned"
    /\ op = "vec2sph"
    /\ exc = "none"
    /\ pc' = "returned"
    /\ op' = "sph2vec"
    /\ args' = [packed |-> out.sph, vec |-> args.vec]
    /\ mem' = [packed |-> out.sph, vec |-> args.vec]
    /\ out' = [vec |-> sph2vec(out.sph)]
    /\ exc' = "none"

\* sph2vec(packed) on a coordinate the caller builds
CallSph2vec ==
    /\ pc = "idle"
    /\ \E t \in (0 - HalfPi)..HalfPi, p \in (0 - PI)..PI, r \in Mags :
          LET packed == [kind |-> "single", v |-> <<t, p, r>>]
          IN  /\ pc' = "returned"
              /\ op' = "sph2vec_new"
              /\ args' = [packed |-> packed]
              /\ mem' = [packed |-> packed]
              /\ out' = [vec |-> sph2vec(packed)]
              /\ exc' = "none"

\* vec2pol(np.array([x, y])) and vec2pol(x, y)
CallVec2polPacked ==
    /\ pc = "idle"
    /\ \E w \in Vec2 :
          /\ pc' = "returned"
          /\ op' = "vec2pol_packed"
          /\ args' = [x |-> w[1], y |-> w[2]]
          /\ mem' = [x |-> w[1], y |-> w[2]]
          /\ out' = vec2pol_packed(w)
          /\ exc' = "none"

CallVec2pol ==
    /\ pc = "idle"
    /\ \E w \in Vec2 :
          /\ pc' = "returned"
          /\ op' = "vec2pol"
          /\ args' = [x |-> w[1], y |-> w[2]]
          /\ mem' = [x |-> w[1], y |-> w[2]]
          /\ out' = vec2pol(w[1], w[2])
          /\ exc' = "none"

\* theta, phi = sphadj(theta, phi) applied to the pair sphadj returned
CallSphadjAgain ==
    /\ pc = "returned"
    /\ op = "sphadj"
    /\ exc = "none"
    /\ Returned("sphadj_again", SphArgs(out.theta, out.phi, 0 - PI, PI),
                sphadjDefault(out.theta, out.phi))

\* the caller drops the result and its arguments
Release ==
    /\ pc = "returned"
    /\ pc' = "idle"
    /\ op' = "none"
    /\ args' = [theta |-> None, phi |-> None]
    /\ mem' = [theta |-> None, phi |-> None]
    /\ out' = [theta |-> None, phi |-> None]
    /\ exc' = "none"

Next ==
    \/ CallSphadjScalar
    \/ CallSphadjBatch
    \/ CallSphadjAzimuthScalar
    \/ CallSphadjAzimuthBatch
    \/ CallEleadj
    \/ CallAziadj
    \/ CallSphadjAgain
    \/ CallAngleBetween
    \/ CallVec2sphSingle
    \/ CallVec2sphBatch
    \/ CallSph2vecOfResult
    \/ CallSph2vec
    \/ CallVec2polPacked
    \/ CallVec2pol
    \/ Release

Spec == Init /\ [][Next]_vars

---------------------------------------------------------------------------
\* What the claims are stated with.

\* x folded into [-pi, pi) by whole turns
Wrap2Pi(x) == ((x + PI) % TwoPi) - PI
\* ((phi - phi_min) mod (phi_max - phi_min)) + phi_min
ModFold(phi, lo, hi) == ((phi - lo) % (hi - lo)) + lo

IsAngleBetween == pc = "returned" /\ op = "angle_between"
IsAzimuthCall == pc = "returned" /\ op \in {"sphadj_phi", "aziadj"}
IsSphadjFamily ==
    pc = "returned" /\ op \in {"sphadj", "sphadj_again", "sphadj_phi", "eleadj", "aziadj"}
IsSphadjBatch == pc = "returned" /\ op = "sphadj" /\ args.theta.kind = "array"
IsZero(vec) == vec = <<0, 0, 0>>

\* C1 (as stated): angle_between returns, with sign=True, the value d
\* congruent to ang1 - ang2 modulo 2*pi that lies in (-pi, pi], and with
\* sign=False its absolute value.
C1_Original ==
    IsAngleBetween =>
        \E e \in (1 - PI)..PI :
            /\ (e - (args.ang1 - args.ang2)) % TwoPi = 0
            /\ out.d = IF args.sign THEN e ELSE AbsInt(e)

\* C1 (amended): angle_between returns, with sign=True, the value d
\* congruent to ang1 - ang2 modulo 2*pi that lies in [-pi, pi) (-pi
\* included, +pi excluded), and with sign=False its absolute value, which
\* lies in [0, pi].
C1_Amended ==
    IsAngleBetween =>
        \E e \in (0 - PI)..(PI - 1) :
            /\ (e - (args.ang1 - args.ang2)) % TwoPi = 0
            /\ out.d = IF args.sign THEN e ELSE AbsInt(e)
            /\ ~args.sign => out.d \in 0..PI

\* the boundary case of C1: a signed difference of exactly pi comes back as -pi
C1_Witness ==
    /\ IsAngleBetween
    /\ args.sign
    /\ args.ang1 - args.ang2 = PI
    /\ out.d = 0 - PI

\* the azimuth returned equals the modulo formula, element by element, and
\* lies in [phi_min, phi_max)
AzimuthIsModFold ==
    /\ exc = "none"
    /\ out.phi.kind = args.phi.kind
    /\ \A i \in DOMAIN args.phi.v :
          /\ out.phi.v[i] = ModFold(args.phi.v[i], args.phi_min, args.phi_max)
          /\ out.phi.v[i] >= args.phi_min
          /\ out.phi.v[i] < args.phi_max

C3_Claim ==
    ( /\ IsSphadjBatch
      /\ \A i \in DOMAIN args.phi.v : args.phi.v[i] # 0
      /\ \E i \in DOMAIN args.theta.v :
            args.theta.v[i] > HalfPi \/ args.theta.v[i] < 0 - HalfPi
      /\ \E i \in DOMAIN args.theta.v :
            args.theta.v[i] <= HalfPi /\ args.theta.v[i] >= 0 - HalfPi )
    => \A i \in DOMAIN args.theta.v :
          LET t == args.theta.v[i]
              p == args.phi.v[i]
          IN  IF t > HalfPi
              THEN out.theta.v[i] = PI - t /\ out.phi.v[i] = Wrap2Pi(p + PI)
              ELSE IF t < 0 - HalfPi
              THEN out.theta.v[i] = 0 - PI - t /\ out.phi.v[i] = Wrap2Pi(p + PI)
              ELSE out.theta.v[i] = t /\ out.phi.v[i] = Wrap2Pi(p)

\* C4: row i of sphadj(batch) equals sphadj of the single coordinate of
\* row i.
C4_Claim ==
    IsSphadjBatch =>
        \A i \in DOMAIN args.theta.v :
            LET one == sphadjDefault(Scalar(args.theta.v[i]), Scalar(args.phi.v[i]))
            IN  /\ out.theta.v[i] = one.theta.v[1]
                /\ out.phi.v[i] = one.phi.v[1]

\* C5: the elevation sphadj / eleadj return with the default bounds lies
\* in [-pi/2, pi/2], whatever the input.
C5_Claim ==
    (pc = "returned" /\ op \in {"sphadj", "eleadj"}) =>
        \A i \in DOMAIN out.theta.v :
            out.theta.v[i] >= 0 - HalfPi /\ out.theta.v[i] <= HalfPi

\* C6: after a call of sphadj, eleadj or aziadj the caller's theta and phi
\* hold the values they held before the call.
C6_Claim ==
    IsSphadjFamily => mem.theta = args.theta /\ mem.phi = args.phi

\* C10: sphadj returns (theta, phi) unchanged whenever every theta is in
\* the closed range [-pi/2, pi/2] and every phi in [-pi, pi), be it a pair
\* the caller built or a pair an earlier sphadj returned (so that a second
\* sphadj changes nothing).
C10_Claim ==
    ( /\ pc = "returned" /\ op \in {"sphadj", "sphadj_again"}
      /\ \A i \in DOMAIN args.theta.v :
            /\ args.theta.v[i] >= 0 - HalfPi /\ args.theta.v[i] <= HalfPi
            /\ args.phi.v[i] >= 0 - PI /\ args.phi.v[i] < PI )
    => out.theta = args.theta /\ out.phi = args.phi

\* C7: sph2vec(vec2sph(v)) reconstructs every v of norm > 0, single or a
\* row of a batch; vec2sph([1,0,0]) is (0, pi/2, 1).
C7_Claim ==
    /\ ( /\ pc = "returned" /\ op = "vec2sph" /\ args.vec.kind = "single"
         /\ ~IsZero(args.vec.v) ) => exc = "none"
    /\ ( /\ pc = "returned" /\ op = "vec2sph" /\ args.vec.kind = "batch"
         /\ \A i \in DOMAIN args.vec.v : ~IsZero(args.vec.v[i]) ) => exc = "none"
    /\ ( /\ pc = "returned" /\ op = "vec2sph"
         /\ args.vec = [kind |-> "single", v |-> <<1, 0, 0>>] )
       => out.sph.v = <<0, HalfPi, 1>>
    /\ ( /\ pc = "returned" /\ op = "sph2vec" /\ args.vec.kind = "single"
         /\ ~IsZero(args.vec.v) ) => out.vec.v = AsReal(args.vec.v)
    /\ ( /\ pc = "returned" /\ op = "sph2vec" /\ args.vec.kind = "batch"
         /\ \A i \in DOMAIN args.vec.v : ~IsZero(args.vec.v[i]) )
       => \A i \in DOMAIN args.vec.v : out.vec.v[i] = AsReal(args.vec.v[i])

\* C8: both call forms of vec2pol return rho = hypot(x, y) and
\* phi = atan2(y, x), x the first component or argument, y the second.
C8_Claim ==
    (pc = "returned" /\ op \in {"vec2pol", "vec2pol_packed"}) =>
        /\ out.rho = Sqrt(args.x * args.x + args.y * args.y)
        /\ out.phi = Arctan2(args.y, args.x)

\* C9: vec2sph returns without error; a zero vector, alone or a row of a
\* batch, gets rho = 1 and finite theta and phi, and every non-zero row of
\* the batch gets rho equal to its norm.
C9_Claim ==
    (pc = "returned" /\ op = "vec2sph") =>
        /\ exc = "none"
        /\ args.vec.kind = "single" =>
              IF IsZero(args.vec.v)
              THEN out.sph.v[3] = 1 /\ out.sph.v[1] # NaN /\ out.sph.v[2] # NaN
              ELSE out.sph.v[3] = Norm(args.vec.v)
        /\ args.vec.kind = "batch" =>
              \A i \in DOMAIN args.vec.v :
                 IF IsZero(args.vec.v[i])
                 THEN /\ out.sph.v[i][3] = 1
                      /\ out.sph.v[i][1] # NaN /\ out.sph.v[i][2] # NaN
                 ELSE out.sph.v[i][3] = Norm(args.vec.v[i])

====
